---------------------------- MODULE Spec2Model ----------------------------
(***************************************************************************)
(* A model of snowfin's Client (src/snowfin/client.py): the registry of    *)
(* callbacks, the request middleware chain (verify_signature,              *)
(* parse_request, ack_request), the dispatch flow _handle_request with its *)
(* defer race, and the background wrapper of _handle_deferred_routine.     *)
(*                                                                         *)
(* Scheduling is asyncio's: a coroutine runs without interruption between  *)
(* two awaits, so every action below is one such segment.  User callbacks  *)
(* (handlers, deferred callables) are the environment: what they return,   *)
(* whether they raise and whether they set ctx.responded are inputs.       *)
(***************************************************************************)
EXTENDS Naturals, Sequences, FiniteSets

\* ------------------------------------------------------------- bounds

\* Interactions that may be in flight in one behaviour.
MaxReqs == 1
\* Routing keys: command names and custom ids are 1..NumKeys.
NumKeys == 2
\* Entries the registry may hold (over its three mappings).
MaxRegistered == 3

\* Interactions in flight together where the claim is about their
\* interleaving.
NumFlights == 2

\* Options a request may carry where the claim is about its options.
MaxOptions == 2

Reqs == 1..MaxReqs
KeyIds == 1..NumKeys
Flights == 1..NumFlights

\* Callbacks a registration call may bring.
Callbacks == {"f", "g"}
\* ComponentType values used as the second half of a component key.
ComponentTypes == {"BUTTON", "SELECT"}
\* Option names of a command.
OptionNames == {"o1", "o2"}
\* Option values as the request carries them: text that reads as an
\* integer, and text that does not.
OptionValues == {"5", "x"}

\* RequestType (snowfin.enums), as read by ack_request and _handle_request.
RequestTypes ==
    {"PING", "APPLICATION_COMMAND", "MESSAGE_COMPONENT",
     "APPLICATION_COMMAND_AUTOCOMPLETE", "MODAL_SUBMIT"}

\* What the X-Signature-Ed25519 header can hold: a signature of
\* timestamp+body under the key, a well-formed signature of something else,
\* or text that is not the hex of a 64 byte signature.
Signatures == {"valid", "forged", "malformed"}

\* What a callback can return.  Message, Edit and Modal are _DiscordResponse
\* objects; DeferCallable and DeferTask are DeferredResponse objects holding
\* a callable or an asyncio.Task; HTTPResponse is a sanic response; None is
\* any value that is neither.
ResultKinds ==
    {"Message", "Edit", "Modal", "DeferCallable", "DeferTask",
     "HTTPResponse", "None"}
\* What a deferred callable (or a task a handler wrapped itself) returns.
BgResultKinds == {"Message", "Edit", "Modal", "None"}

VARIABLES
    commands,     \* self.commands: list of InteractionCommand
    components,   \* self.components: dict (custom_id, type) -> callback
    modals,       \* self.modals: dict custom_id -> callback
    reg_call,     \* the last registration call and whether it raised
    auto_defer,   \* self.auto_defer.enabled
    req           \* per Interaction: the request, its ctx and its tasks

vars == <<commands, components, modals, reg_call, auto_defer, req>>
registry == <<commands, components, modals>>

\* ------------------------------------------------------------ helpers

Count(s, e) == Cardinality({i \in DOMAIN s : s[i] = e})

\* Position of the first e in s, 0 when there is none.
IndexOf(s, e) ==
    IF \E i \in DOMAIN s : s[i] = e
    THEN CHOOSE i \in DOMAIN s : s[i] = e /\ \A j \in 1..(i-1) : s[j] # e
    ELSE 0

\* dict.get(key): the value, or "None" when the key is absent.
DictGet(d, k) == IF k \in DOMAIN d THEN d[k] ELSE "None"

\* d[key] = value
DictSet(d, k, v) == [x \in DOMAIN d \cup {k} |-> IF x = k THEN v ELSE d[x]]

EmptyDict == [x \in {} |-> "None"]

\* ----------------------------------------------------------- registry

\* An InteractionCommand: the command of callback "f" holds an
\* autocomplete callback for option "o1", the command of callback "g" one
\* for "o1" and one for "o2".
InteractionCommand(name, callback) ==
    [name |-> name, callback |-> callback,
     autocomplete_callbacks |->
        IF callback = "f"
        THEN [o1 |-> "f_o1"]
        ELSE [o1 |-> "g_o1", o2 |-> "g_o2"]]

\* callback.__annotations__: "f" annotates ctx, o1 as int and o2 as str,
\* "g" annotates o1 as str.
Annotations(callback) ==
    IF callback = "f"
    THEN [ctx |-> "Interaction", o1 |-> "int", o2 |-> "str"]
    ELSE [o1 |-> "str"]

NoCommand ==
    [name |-> 0, callback |-> "None", autocomplete_callbacks |-> EmptyDict]

CommandNames(cmds) == {cmds[i].name : i \in DOMAIN cmds}

\* Client.get_command: the first command of the list with that name.
GetCommandIn(cmds, name) ==
    IF name \in CommandNames(cmds)
    THEN cmds[CHOOSE i \in DOMAIN cmds :
                 /\ cmds[i].name = name
                 /\ \A j \in 1..(i-1) : cmds[j].name # name]
    ELSE NoCommand

get_command(name) == GetCommandIn(commands, name)

RegistrySize == Len(commands) + Cardinality(DOMAIN components)
                    + Cardinality(DOMAIN modals)

\* Client.add_interaction_command: ValueError when the name is in the
\* list, else the command is appended.
CommandExists(cmds, command) == command.name \in CommandNames(cmds)

AddCommandTo(cmds, command) ==
    IF CommandExists(cmds, command) THEN cmds ELSE Append(cmds, command)

add_interaction_command(command) ==
    /\ RegistrySize < MaxRegistered \/ CommandExists(commands, command)
    /\ commands' = AddCommandTo(commands, command)
    /\ reg_call' = [kind |-> "command", key |-> <<command.name>>,
                    raised |-> CommandExists(commands, command)]
    /\ UNCHANGED <<components, modals, auto_defer, req>>

\* Client.add_component_callback: ValueError when (custom_id, type) is a
\* key of the dict, else the callback is stored under it.
ComponentExists(comps, key) == key \in DOMAIN comps
\* As AddComponentTo, without the check for the key.
AddComponentOverwriting(comps, key, callback) == DictSet(comps, key, callback)

AddComponentTo(comps, key, callback) ==
    IF ComponentExists(comps, key) THEN comps ELSE DictSet(comps, key, callback)

add_component_callback(custom_id, type, callback) ==
    /\ RegistrySize < MaxRegistered
          \/ ComponentExists(components, <<custom_id, type>>)
    /\ components' = AddComponentTo(components, <<custom_id, type>>, callback)
    /\ reg_call' = [kind |-> "component", key |-> <<custom_id, type>>,
                    raised |-> ComponentExists(components, <<custom_id, type>>)]
    /\ UNCHANGED <<commands, modals, auto_defer, req>>

\* Client.add_modal_callback: ValueError when custom_id is a key of the
\* dict, else the callback is stored under it.
ModalExists(mods, custom_id) == custom_id \in DOMAIN mods

AddModalTo(mods, custom_id, callback) ==
    IF ModalExists(mods, custom_id) THEN mods
    ELSE DictSet(mods, custom_id, callback)

add_modal_callback(custom_id, callback) ==
    /\ RegistrySize < MaxRegistered \/ ModalExists(modals, custom_id)
    /\ modals' = AddModalTo(modals, custom_id, callback)
    /\ reg_call' = [kind |-> "modal", key |-> <<custom_id>>,
                    raised |-> ModalExists(modals, custom_id)]
    /\ UNCHANGED <<commands, components, auto_defer, req>>

NoCall == [kind |-> "none", key |-> <<>>, raised |-> FALSE]

\* ------------------------------------------------ requests and replies

Reply(status, body) == [status |-> status, body |-> body]

NoReply == Reply(0, "none")
\* json({"error": "invalid signature"}, status=403)
InvalidSignature == Reply(403, "error: invalid signature")
\* json({"type": 1})
Pong == Reply(200, "type: 1")
\* json({"error": "command not found"}, status=404)
NotFound == Reply(404, "error: command not found")
\* An exception that leaves a middleware or the route handler: the server's
\* error reply, named after the exception.
ServerError(exception) == Reply(500, exception)

\* An option of request.ctx.data.options.
Option(name, value, focused) ==
    [name |-> name, value |-> value, focused |-> focused]

\* The values a callback is called with: a str or an int (written as its
\* text), or an option object (written as the text of its value).
Str(text) == [class |-> "str", text |-> text]
Int(text) == [class |-> "int", text |-> text]
OptionObject(option) == [class |-> "Option", text |-> option.value]

\* A request not yet received.  id stands for the request object (0 before
\* there is one); bg_args, wrapper_request and sent are what a deferred
\* callable is called with, the request the wrapper holds, and the calls of
\* http.edit_original_message made.
IdleRequest ==
    [id |-> 0, bg_args |-> <<>>, wrapper_request |-> 0, sent |-> <<>>,
     pc |-> "idle", sig |-> "none", type |-> "none", key |-> 0,
     ctype |-> "none", options |-> <<>>, focused |-> "none",
     responded |-> FALSE, func |-> "None", args |-> <<>>,
     kwargs |-> EmptyDict, built_type |-> "none", resp_type |-> "none", task |-> "none", result |-> "none",
     routine |-> "none", bg |-> "none", bgresult |-> "none",
     wrapper |-> "none", reply |-> NoReply, events |-> <<>>]

\* What happened to the request, in order: the listener events dispatched
\* ("before_request", "command", ...), "parse_request", "create_task" (the
\* handler is started), "timeout", "responded" (the flag is set by the
\* engine), "create_bg" (a deferred callable is started), "bg_done",
\* "create_wrapper", "primary" (the primary response is returned),
\* "followup" (http.edit_original_message is called), "log_error".
Log(q, e) == [q EXCEPT !.events = Append(@, e)]

Has(q, e) == \E i \in DOMAIN q.events : q.events[i] = e

Finish(q, reply) == [q EXCEPT !.pc = "done", !.reply = reply]

NoOption == Option("none", "none", FALSE)
\* As FocusedOption, with the first option whether focused or not.
FirstOfOptions(options) ==
    IF options # <<>> THEN options[1] ELSE NoOption

\* The first option flagged focused, NoOption without one (the loop of the
\* autocomplete branch stops at it).
FocusedOption(options) ==
    IF \E i \in DOMAIN options : options[i].focused
    THEN options[CHOOSE i \in DOMAIN options :
                    /\ options[i].focused
                    /\ \A j \in 1..(i-1) : ~options[j].focused]
    ELSE NoOption

FirstFocused(options) == FocusedOption(options).name

Payload(type, key, ctype, options) ==
    [type |-> type, key |-> key, ctype |-> ctype, options |-> options,
     focused |-> FirstFocused(options)]

\* The options of a command request: o1 does not read as an integer.
CommandOptions == <<Option("o1", "x", FALSE), Option("o2", "5", FALSE)>>
\* The options of an autocomplete request: none focused, o1 focused after
\* an option that is not, o2 focused before another focused option.
AutocompleteOptions ==
    {<<Option("o1", "x", FALSE)>>,
     <<Option("o2", "5", FALSE), Option("o1", "x", TRUE)>>,
     <<Option("o2", "5", TRUE), Option("o1", "x", TRUE)>>}

\* The payloads parse_request can build: the type, and the fields of data
\* that type carries.
Payloads ==
    {Payload("PING", 0, "none", <<>>)}
    \cup {Payload("APPLICATION_COMMAND", k, "none", CommandOptions) :
            k \in KeyIds}
    \cup {Payload("MODAL_SUBMIT", k, "none", <<>>) : k \in KeyIds}
    \cup {Payload("MESSAGE_COMPONENT", k, c, <<>>) :
            k \in KeyIds, c \in ComponentTypes}
    \cup {Payload("APPLICATION_COMMAND_AUTOCOMPLETE", k, "none", o) :
            k \in KeyIds, o \in AutocompleteOptions}

\* ------------------------------------------------------ the middleware

\* verify_signature: bytes.fromhex and VerifyKey.verify raise ValueError on
\* text that is not the hex of a 64 byte signature, BadSignatureError on a
\* signature of something else; only BadSignatureError is caught.
VerifyOutcome(sig) ==
    CASE sig = "valid" -> "verified"
      [] sig = "forged" -> "BadSignatureError"
      [] OTHER -> "ValueError"

Receive(r, sig) ==
    /\ req[r].pc = "idle"
    /\ req' = [req EXCEPT ![r] =
                 [@ EXCEPT !.id = r, !.pc = "received", !.sig = sig]]
    /\ UNCHANGED <<commands, components, modals, reg_call, auto_defer>>

VerifiedRequest(q) ==
    CASE VerifyOutcome(q.sig) = "verified" -> [q EXCEPT !.pc = "verified"]
      [] VerifyOutcome(q.sig) = "BadSignatureError" ->
            Finish(q, InvalidSignature)
      [] OTHER -> Finish(q, ServerError(VerifyOutcome(q.sig)))

verify_signature(r) ==
    /\ req[r].pc = "received"
    /\ req' = [req EXCEPT ![r] = VerifiedRequest(@)]
    /\ UNCHANGED <<commands, components, modals, reg_call, auto_defer>>

\* parse_request: request.ctx is built from the body; responded is False.
ParsedRequest(q, p) ==
    Log([q EXCEPT !.pc = "parsed", !.type = p.type, !.key = p.key,
                   !.ctype = p.ctype, !.options = p.options,
                   !.focused = p.focused, !.responded = FALSE],
        "parse_request")

parse_request(r, p) ==
    /\ req[r].pc = "verified"
    /\ req' = [req EXCEPT ![r] = ParsedRequest(@, p)]
    /\ UNCHANGED <<commands, components, modals, reg_call, auto_defer>>
\* As AckedRequest, without the PING answer.
AckedWithoutPong(q) == [q EXCEPT !.pc = "routed"]

\* ack_request: a PING is answered here, the rest goes on to the route.
AckedRequest(q) ==
    IF q.type = "PING" THEN Finish(q, Pong) ELSE [q EXCEPT !.pc = "routed"]

ack_request(r) ==
    /\ req[r].pc = "parsed"
    /\ req' = [req EXCEPT ![r] = AckedRequest(@)]
    /\ UNCHANGED <<commands, components, modals, reg_call, auto_defer>>

\* ------------------------------------------------------ _handle_request

\* The listener event dispatched for each request type.
EventOf(type) ==
    CASE type = "APPLICATION_COMMAND" -> "command"
      [] type = "APPLICATION_COMMAND_AUTOCOMPLETE" -> "autocomplete"
      [] type = "MESSAGE_COMPONENT" -> "component"
      [] type = "MODAL_SUBMIT" -> "modal"
      [] OTHER -> "none"

\* Client.dispatch: the event goes to its listeners.
Dispatch(q, event) == IF event = "none" THEN q ELSE Log(q, event)

\* The callback the request resolves to, "None" on a miss: the command of
\* that name; for an autocomplete the callback the command holds for the
\* first focused option; the component under (custom_id, type); the modal
\* under custom_id.
Resolve(q) ==
    CASE q.type = "APPLICATION_COMMAND" -> get_command(q.key).callback
      [] q.type = "APPLICATION_COMMAND_AUTOCOMPLETE" ->
            DictGet(get_command(q.key).autocomplete_callbacks, q.focused)
      [] q.type = "MESSAGE_COMPONENT" ->
            DictGet(components, <<q.key, q.ctype>>)
      [] q.type = "MODAL_SUBMIT" -> DictGet(modals, q.key)
      [] OTHER -> "None"

\* The arguments of a callback the loop over its annotations leaves out.
SkippedArguments == {"self", "ctx", "context"}

\* next(filter(lambda x: x.name == argument, options), None): the first
\* option of that name.
FirstOption(options, argument) ==
    options[CHOOSE i \in DOMAIN options :
               /\ options[i].name = argument
               /\ \A j \in 1..(i-1) : options[j].name # argument]

\* Whether type(value) returns: str takes any text, int the text of an
\* integer, and other annotations raise.
Coerces(type, value) ==
    CASE type = "str" -> TRUE
      [] type = "int" -> value = "5"
      [] OTHER -> FALSE

\* type(value)
Coerced(type, value) == IF type = "int" THEN Int(value) ELSE Str(value)

\* with suppress(Exception): option = type(option.value); what is left in
\* the variable option afterwards.
KwargFor(type, option) ==
    IF Coerces(type, option.value)
    THEN Coerced(type, option.value)
    ELSE OptionObject(option)

\* The kwargs of a command's callback: one for every annotated argument,
\* other than the skipped ones, that has an option of its name.
BuildKwargs(annotations, options) ==
    [a \in {b \in DOMAIN annotations \ SkippedArguments :
               \E i \in DOMAIN options : options[i].name = b}
        |-> KwargFor(annotations[a], FirstOption(options, a))]

\* functools.partial(callback, request.ctx, ...): what the callback is
\* bound to besides ctx, the kwargs for a command and the value of the
\* first focused option for an autocomplete.
Partial(q) ==
    CASE q.type = "APPLICATION_COMMAND" ->
            [q EXCEPT !.kwargs =
                BuildKwargs(Annotations(get_command(q.key).callback),
                            q.options)]
      [] q.type = "APPLICATION_COMMAND_AUTOCOMPLETE" ->
            [q EXCEPT !.args =
                <<Str(FocusedOption(q.options).value)>>]
      [] OTHER -> q

\* As Races, on every route.
RacesOnEveryRoute(q) == auto_defer

\* Whether the defer race applies: auto defer is enabled and the request is
\* a command or a component.
Races(q) ==
    /\ auto_defer
    /\ q.type \in {"APPLICATION_COMMAND", "MESSAGE_COMPONENT"}

\* asyncio.create_task(func()): the handler task is scheduled.
CreateTask(q, func) ==
    Log([q EXCEPT !.func = func, !.task = "running"], "create_task")
\* As StartedRequest, without the reply on a miss.
StartedWithoutMissCheck(q) ==
    [CreateTask(Dispatch(Dispatch(q, "before_request"), EventOf(q.type)),
                Resolve(q))
        EXCEPT !.pc = IF Races(q) THEN "racing" ELSE "awaiting"]

\* _handle_request up to its first await: the events are dispatched, the
\* callback is resolved, and on a hit its task is created and waited on
\* (asyncio.wait with the timeout in a race, await task otherwise).
StartedRequest(q) ==
    LET d == Dispatch(Dispatch(q, "before_request"), EventOf(q.type))
        func == Resolve(q)
    IN  IF func = "None"
        THEN Finish(d, NotFound)
        ELSE [CreateTask(Partial(d), func) EXCEPT
                !.pc = IF Races(q) THEN "racing" ELSE "awaiting"]

\* As HandleRequest, with the modal taken out of its dict when resolved
\* (dict.pop in place of dict.get).
HandleRequestPopping(r) ==
    /\ req[r].pc = "routed"
    /\ req' = [req EXCEPT ![r] = StartedRequest(@)]
    /\ modals' = IF req[r].type = "MODAL_SUBMIT"
                 THEN [k \in DOMAIN modals \ {req[r].key} |-> modals[k]]
                 ELSE modals
    /\ UNCHANGED <<commands, components, reg_call, auto_defer>>

HandleRequest(r) ==
    /\ req[r].pc = "routed"
    /\ req' = [req EXCEPT ![r] = StartedRequest(@)]
    /\ UNCHANGED <<commands, components, modals, reg_call, auto_defer>>

\* ------------------------------------------------------- the callbacks

\* The handler, running as its task, sets ctx.responded.
HandlerSetsResponded(r) ==
    /\ req[r].task = "running"
    /\ ~req[r].responded
    /\ req' = [req EXCEPT ![r] = [@ EXCEPT !.responded = TRUE]]
    /\ UNCHANGED <<commands, components, modals, reg_call, auto_defer>>

\* The type a DeferredResponse has as its callback built it: either defer
\* type ("none" for a result that is no DeferredResponse).
BuiltDeferTypes(kind) ==
    IF kind \in {"DeferCallable", "DeferTask"}
    THEN {"DEFER", "COMPONENT_DEFER"}
    ELSE {"none"}

\* The handler returns; a DeferredResponse holding a task holds one the
\* handler created itself.  resp_type is the type attribute of a
\* DeferredResponse it returns, built_type what that was on return.
HandlerReturns(r, kind) ==
    /\ req[r].task = "running"
    /\ \E t \in BuiltDeferTypes(kind) :
          req' = [req EXCEPT ![r] =
                    [@ EXCEPT !.task = "done", !.result = kind,
                              !.built_type = t, !.resp_type = t,
                              !.bg = IF kind = "DeferTask" THEN "running"
                                     ELSE @]]
    /\ UNCHANGED <<commands, components, modals, reg_call, auto_defer>>

HandlerRaises(r) ==
    /\ req[r].task = "running"
    /\ req' = [req EXCEPT ![r] = [@ EXCEPT !.task = "raised"]]
    /\ UNCHANGED <<commands, components, modals, reg_call, auto_defer>>

\* The task a DeferredResponse holds returns or raises.
BgReturns(r, kind) ==
    /\ req[r].bg = "running"
    /\ req' = [req EXCEPT ![r] =
                 Log([@ EXCEPT !.bg = "done", !.bgresult = kind], "bg_done")]
    /\ UNCHANGED <<commands, components, modals, reg_call, auto_defer>>

BgRaises(r) ==
    /\ req[r].bg = "running"
    /\ req' = [req EXCEPT ![r] = [@ EXCEPT !.bg = "raised"]]
    /\ UNCHANGED <<commands, components, modals, reg_call, auto_defer>>

\* ----------------------------------------------- the wrapper's steps

DeferredKinds == {"AutoDefer", "DeferCallable", "DeferTask"}
DiscordResponseKinds == {"Message", "Edit", "Modal"} \cup DeferredKinds

\* ResponseType of a response object as its callback built it.
ResponseType(kind) ==
    CASE kind = "Message" -> "SEND_MESSAGE"
      [] kind = "Edit" -> "EDIT_ORIGINAL_MESSAGE"
      [] kind = "Modal" -> "MODAL"
      [] kind \in DeferredKinds -> "DEFER"
      [] OTHER -> "AttributeError"

RoutineState(q) == IF q.routine = "handler" THEN q.task ELSE q.bg
RoutineResult(q) == IF q.routine = "handler" THEN q.result ELSE q.bgresult

\* As FollowupOutcome, with a result of another kind dropped.
FollowupDroppingOthers(kind) ==
    IF ResponseType(kind) \in {"SEND_MESSAGE", "EDIT_ORIGINAL_MESSAGE"}
    THEN "call" ELSE "nothing"

\* _handle_deferred_response: nothing for an empty result, the call for a
\* message or an edit, an exception for anything else.
FollowupOutcome(kind) ==
    CASE kind = "None" -> "nothing"
      [] ResponseType(kind) \in {"SEND_MESSAGE", "EDIT_ORIGINAL_MESSAGE"} ->
            "call"
      [] OTHER -> "raise"

\* self.http.edit_original_message(request, response)
EditOriginalMessage(request, response) ==
    [request |-> request, response |-> response]

\* wrapper, from await routine to the call of http.edit_original_message
\* (or to its end): an exception of the routine or of
\* _handle_deferred_response is logged.
Resumed(q) ==
    IF RoutineState(q) = "raised"
    THEN Log([q EXCEPT !.wrapper = "done"], "log_error")
    ELSE CASE FollowupOutcome(RoutineResult(q)) = "call" ->
                Log([q EXCEPT !.wrapper = "calling",
                              !.sent = Append(@, EditOriginalMessage(
                                            q.wrapper_request,
                                            RoutineResult(q)))],
                    "followup")
           [] FollowupOutcome(RoutineResult(q)) = "raise" ->
                Log([q EXCEPT !.wrapper = "done"], "log_error")
           [] OTHER -> [q EXCEPT !.wrapper = "done"]

\* As Delivered, with a failed call made again.
DeliveredRetrying(q, ok) ==
    IF ok THEN [q EXCEPT !.wrapper = "done"]
    ELSE Log(Log(q, "log_error"), "followup")

\* http.edit_original_message returns, or raises and is logged.
Delivered(q, ok) ==
    IF ok THEN [q EXCEPT !.wrapper = "done"]
    ELSE Log([q EXCEPT !.wrapper = "done"], "log_error")

\* ------------------------------------------------- the primary response

\* As DeferType, with the generic defer on every route.
DeferTypeGeneric(q) == "DEFER"

\* The type a DeferredResponse is given at emission.
DeferType(q) ==
    IF q.type = "MESSAGE_COMPONENT" THEN "COMPONENT_DEFER" ELSE "DEFER"

\* resp.type = ...: on the DeferredResponse the handler returned, or on
\* the one the race has just made.
SetDeferType(q, kind) ==
    IF kind = "AutoDefer" THEN q ELSE [q EXCEPT !.resp_type = DeferType(q)]
\* As MarkResponded, with the flag never set.
MarkRespondedNever(q, kind) == q

\* if not isinstance(resp, DeferredResponse): request.ctx.responded = True
MarkResponded(q, kind) ==
    IF kind \in DeferredKinds THEN q
    ELSE Log([q EXCEPT !.responded = TRUE], "responded")

\* if not isinstance(resp.task, asyncio.Task): the callable is started.
\* resp.task(self, request.ctx) is called and made a task.
StartCallable(q, kind) ==
    IF kind = "DeferCallable"
    THEN Log([q EXCEPT !.bg = "running", !.bg_args = <<"self", q.id>>],
             "create_bg")
    ELSE q
\* As DeferredRoutine, with no wrapper created on the routine.
RoutineWithoutWrapper(q, kind) ==
    [q EXCEPT !.routine = IF kind = "AutoDefer" THEN "handler" ELSE "bg"]
\* As DeferredRoutine, with the wrapper awaited where it is created.
RoutineAwaitedInline(q, kind) ==
    LET w == Log([q EXCEPT !.routine = IF kind = "AutoDefer" THEN "handler"
                                        ELSE "bg",
                           !.wrapper = "waiting", !.wrapper_request = q.id],
                 "create_wrapper")
    IN  IF RoutineState(w) \in {"done", "raised"} THEN Resumed(w) ELSE w

\* As DeferredRoutine, with the wrapper holding the first request received
\* rather than its own.
RoutineOnFirstRequest(q, kind) ==
    Log([q EXCEPT !.routine = IF kind = "AutoDefer" THEN "handler" ELSE "bg",
                  !.wrapper = "waiting", !.wrapper_request = 1],
        "create_wrapper")

\* _handle_deferred_routine: the wrapper task is created on the routine,
\* which is the handler's task for a defer the race made, and on the
\* request.
DeferredRoutine(q, kind) ==
    Log([q EXCEPT !.routine = IF kind = "AutoDefer" THEN "handler" ELSE "bg",
                  !.wrapper = "waiting", !.wrapper_request = q.id],
        "create_wrapper")

\* return json(resp.to_dict()), or the sanic response as it is.
Respond(q, reply) == Finish(Log(q, "primary"), reply)

\* _handle_request after the responded check, on the response resp.
Emitted(q, kind) ==
    LET m == MarkResponded(q, kind)
    IN  CASE kind \in DeferredKinds ->
                Respond(DeferredRoutine(
                            StartCallable(SetDeferType(m, kind), kind),
                            kind),
                        Reply(200, DeferType(q)))
          [] kind \in DiscordResponseKinds \ DeferredKinds ->
                Respond(m, Reply(200, ResponseType(kind)))
          [] kind = "HTTPResponse" ->
                Respond(m, Reply(200, "HTTPResponse"))
          [] OTHER -> Finish(m, ServerError("no response"))
\* As Emit, with a callable started before the responded check.
EmitStartingCallableFirst(q, kind) ==
    IF q.responded
    THEN Finish(StartCallable(q, kind),
                ServerError("Callback already responded"))
    ELSE Emitted(q, kind)

\* _handle_request from the responded check to its return, on the response
\* resp: the handler's result, or the defer the race made.
Emit(q, kind) ==
    IF q.responded
    THEN Finish(q, ServerError("Callback already responded"))
    ELSE Emitted(q, kind)
\* As TimedOut, with the task cancelled when the wait times out (the way
\* asyncio.wait_for ends a wait).
TimedOutCancelling(q) ==
    Emit(Log([q EXCEPT !.task = "cancelled"], "timeout"), "AutoDefer")

\* asyncio.wait returned with the task pending: the timeout elapsed.  The
\* task is left as it is, and a DeferredResponse is made on it.
TimedOut(q) == Emit(Log(q, "timeout"), "AutoDefer")

Timeout(r) ==
    /\ req[r].pc = "racing"
    /\ req[r].task = "running"
    /\ req' = [req EXCEPT ![r] = TimedOut(@)]
    /\ UNCHANGED <<commands, components, modals, reg_call, auto_defer>>
\* As Completed, with a defer made on the finished task as on a pending one.
CompletedAsPending(q) ==
    IF q.task = "raised"
    THEN Finish(q, ServerError("handler exception"))
    ELSE Emit(q, "AutoDefer")

\* As Completed, with a handler that raised deferred like a pending one.
CompletedDeferringOnRaise(q) ==
    IF q.task = "raised" THEN Emit(q, "AutoDefer") ELSE Emit(q, q.result)

\* task.result() / await task: the handler's result, or its exception.
Completed(q) ==
    IF q.task = "raised"
    THEN Finish(q, ServerError("handler exception"))
    ELSE Emit(q, q.result)

\* asyncio.wait returned with the task done.
WaitReturns(r) ==
    /\ req[r].pc = "racing"
    /\ req[r].task \in {"done", "raised"}
    /\ req' = [req EXCEPT ![r] = Completed(@)]
    /\ UNCHANGED <<commands, components, modals, reg_call, auto_defer>>

\* await task returned, on a route without the race.
AwaitReturns(r) ==
    /\ req[r].pc = "awaiting"
    /\ req[r].task \in {"done", "raised"}
    /\ req' = [req EXCEPT ![r] = Completed(@)]
    /\ UNCHANGED <<commands, components, modals, reg_call, auto_defer>>

\* ------------------------------------------------------ the follow-up

WrapperResumes(r) ==
    /\ req[r].wrapper = "waiting"
    /\ RoutineState(req[r]) \in {"done", "raised"}
    /\ req' = [req EXCEPT ![r] = Resumed(@)]
    /\ UNCHANGED <<commands, components, modals, reg_call, auto_defer>>

FollowupReturns(r, ok) ==
    /\ req[r].wrapper = "calling"
    /\ req' = [req EXCEPT ![r] = Delivered(@, ok)]
    /\ UNCHANGED <<commands, components, modals, reg_call, auto_defer>>

\* ------------------------------------------------------ specifications

\* A registry the registration calls build: command 1 with callback "f",
\* a button 1 and a modal 1 with callback "g".
SampleCommands == AddCommandTo(<<>>, InteractionCommand(1, "f"))
SampleComponents == AddComponentTo(EmptyDict, <<1, "BUTTON">>, "g")
SampleModals == AddModalTo(EmptyDict, 1, "g")

\* The client after construction, serving, with nothing received yet.
Init ==
    /\ \/ /\ commands = <<>>
          /\ components = EmptyDict
          /\ modals = EmptyDict
       \/ /\ commands = SampleCommands
          /\ components = SampleComponents
          /\ modals = SampleModals
    /\ reg_call = NoCall
    /\ auto_defer \in BOOLEAN
    /\ req = [r \in Reqs |-> IdleRequest]

Next ==
    \E r \in Reqs :
        \/ \E sig \in Signatures : Receive(r, sig)
        \/ verify_signature(r)
        \/ \E p \in Payloads : parse_request(r, p)
        \/ ack_request(r)
        \/ HandleRequest(r)
        \/ HandlerSetsResponded(r)
        \/ \E kind \in ResultKinds : HandlerReturns(r, kind)
        \/ HandlerRaises(r)
        \/ Timeout(r)
        \/ WaitReturns(r)
        \/ AwaitReturns(r)
        \/ \E kind \in BgResultKinds : BgReturns(r, kind)
        \/ BgRaises(r)
        \/ WrapperResumes(r)
        \/ \E ok \in BOOLEAN : FollowupReturns(r, ok)

Spec == Init /\ [][Next]_vars

\* The event loop runs a task that is ready: a wrapper whose routine has
\* finished is resumed.
FairSpec == Spec /\ \A r \in Reqs : WF_vars(WrapperResumes(r))

\* The client under construction: registration calls only, from an empty
\* registry.
InitReg ==
    /\ commands = <<>>
    /\ components = EmptyDict
    /\ modals = EmptyDict
    /\ reg_call = NoCall
    /\ auto_defer = FALSE
    /\ req = [r \in Reqs |-> IdleRequest]

NextReg ==
    \/ \E n \in KeyIds, c \in Callbacks :
            add_interaction_command(InteractionCommand(n, c))
    \/ \E k \in KeyIds, t \in ComponentTypes, c \in Callbacks :
            add_component_callback(k, t, c)
    \/ \E k \in KeyIds, c \in Callbacks : add_modal_callback(k, c)

SpecReg == InitReg /\ [][NextReg]_vars

\* Several Interactions in flight at once on the sample registry with auto
\* defer enabled: requests with a forged signature, pings, requests for
\* command 1 (a route with the race), for modal 1 (a route without it) and
\* for a modal that is not registered, their handlers and deferred
\* callables finishing in any interleaving.
FlightSignatures == {"valid", "forged"}
FlightPayloads ==
    {p \in Payloads :
        \/ p.type = "PING"
        \/ p.type = "APPLICATION_COMMAND" /\ p.key = 1
        \/ p.type = "MODAL_SUBMIT"}
FlightResults == {"Message", "DeferCallable"}
FlightBgResults == {"Edit", "Modal"}

InitFlights ==
    /\ commands = SampleCommands
    /\ components = SampleComponents
    /\ modals = SampleModals
    /\ reg_call = NoCall
    /\ auto_defer = TRUE
    /\ req = [r \in Flights |-> IdleRequest]

NextFlights ==
    \E r \in Flights :
        \/ \E sig \in FlightSignatures : Receive(r, sig)
        \/ verify_signature(r)
        \/ \E p \in FlightPayloads : parse_request(r, p)
        \/ ack_request(r)
        \/ HandleRequest(r)
        \/ HandlerSetsResponded(r)
        \/ \E kind \in FlightResults : HandlerReturns(r, kind)
        \/ HandlerRaises(r)
        \/ Timeout(r)
        \/ WaitReturns(r)
        \/ AwaitReturns(r)
        \/ \E kind \in FlightBgResults : BgReturns(r, kind)
        \/ BgRaises(r)
        \/ WrapperResumes(r)
        \/ \E ok \in BOOLEAN : FollowupReturns(r, ok)

SpecFlights == InitFlights /\ [][NextFlights]_vars

\* One command or autocomplete request with any list of up to MaxOptions
\* options, to a client whose command 1 has either callback: the route up
\* to the start of the handler.
OptionLists(options) == UNION {[1..n -> options] : n \in 0..MaxOptions}

ArgPayloads ==
    {Payload("APPLICATION_COMMAND", k, "none", o) :
        k \in KeyIds,
        o \in OptionLists({Option(n, v, FALSE) :
                n \in OptionNames \cup {"ctx"}, v \in OptionValues})}
    \cup {Payload("APPLICATION_COMMAND_AUTOCOMPLETE", k, "none", o) :
        k \in KeyIds,
        o \in OptionLists({Option(n, v, fo) :
                n \in OptionNames, v \in OptionValues, fo \in BOOLEAN})}

InitArgs ==
    /\ commands \in {AddCommandTo(<<>>, InteractionCommand(1, c)) :
                        c \in Callbacks}
    /\ components = EmptyDict
    /\ modals = EmptyDict
    /\ reg_call = NoCall
    /\ auto_defer = FALSE
    /\ req = [r \in {1} |-> IdleRequest]

NextArgs ==
    \/ Receive(1, "valid")
    \/ verify_signature(1)
    \/ \E p \in ArgPayloads : parse_request(1, p)
    \/ ack_request(1)
    \/ HandleRequest(1)

SpecArgs == InitArgs /\ [][NextArgs]_vars

\* -------------------------------------------------------------- claims

Followups(q) == Count(q.events, "followup")
Primaries(q) == Count(q.events, "primary")

\* C1: a request whose signature is not a valid signature of timestamp+body
\* is answered with {"error": "invalid signature"}, status 403, and nothing
\* else happens to it: it is not parsed, no event is dispatched, no handler
\* is started and no follow-up is sent.
C1_InvalidSignatureRejected ==
    \A r \in Reqs :
        (req[r].sig \in {"forged", "malformed"} /\ req[r].pc # "received")
            => /\ req[r].pc = "done"
               /\ req[r].reply = InvalidSignature
               /\ req[r].events = <<>>
               /\ req[r].task = "none"
               /\ req[r].wrapper = "none"

\* C2: a verified PING is answered with exactly {"type": 1}, whatever the
\* registry holds, and nothing of the dispatch flow runs for it: no event
\* is dispatched, no handler is resolved or started, no follow-up is sent.
C2_PingAcknowledged ==
    \A r \in Reqs :
        req[r].type = "PING"
            => /\ req[r].pc \in {"parsed", "done"}
               /\ req[r].pc = "done" => req[r].reply = Pong
               /\ req[r].events = <<"parse_request">>
               /\ req[r].func = "None"
               /\ req[r].task = "none"
               /\ req[r].wrapper = "none"

C2_Witness ==
    \E r \in Reqs :
        /\ req[r].type = "PING"
        /\ req[r].pc = "done"
        /\ commands # <<>>

\* The request is a command, a component or a modal whose key is in no
\* mapping of the registry.
Unregistered(q) ==
    \/ q.type = "APPLICATION_COMMAND" /\ q.key \notin CommandNames(commands)
    \/ q.type = "MESSAGE_COMPONENT"
          /\ <<q.key, q.ctype>> \notin DOMAIN components
    \/ q.type = "MODAL_SUBMIT" /\ q.key \notin DOMAIN modals

\* C3: a verified command, component or modal request whose key is not
\* registered is answered with {"error": "command not found"}, status 404:
\* no handler task is started, responded stays false, nothing is raised and
\* no follow-up is sent.
C3_MissIsNotFound ==
    \A r \in Reqs :
        (Unregistered(req[r]) /\ req[r].pc \notin {"parsed", "routed"})
            => /\ req[r].pc = "done"
               /\ req[r].reply = NotFound
               /\ ~Has(req[r], "create_task")
               /\ req[r].task = "none"
               /\ ~req[r].responded
               /\ req[r].wrapper = "none"
               /\ Followups(req[r]) = 0

C3_Witness ==
    \E r \in Reqs :
        /\ req[r].type = "MESSAGE_COMPONENT"
        /\ <<req[r].key, "BUTTON">> \in DOMAIN components
        /\ req[r].ctype = "SELECT"
        /\ req[r].reply = NotFound

\* The reply the flow ends with when ctx.responded is already set.
AlreadyResponded == ServerError("Callback already responded")

\* The primary response a deferred response becomes on the request's route.
DeferReplyFor(q) ==
    IF q.type = "MESSAGE_COMPONENT"
    THEN Reply(200, "COMPONENT_DEFER")
    ELSE Reply(200, "DEFER")

\* The handler's own response as a primary response.
OwnReplyFor(q) ==
    CASE q.result = "Message" -> Reply(200, "SEND_MESSAGE")
      [] q.result = "Edit" -> Reply(200, "EDIT_ORIGINAL_MESSAGE")
      [] q.result = "Modal" -> Reply(200, "MODAL")
      [] q.result = "HTTPResponse" -> Reply(200, "HTTPResponse")
      [] OTHER -> DeferReplyFor(q)

\* The step in which the flow of r leaves its wait and ends.
EndsWait(r) ==
    /\ req[r].pc \in {"racing", "awaiting"}
    /\ req'[r].pc = "done"

\* C4: a request that resolves to a handler gets exactly one primary
\* response, whatever the handler returns, deferred or not; when
\* ctx.responded is already set the flow raises instead and emits none.
C4_ExactlyOnePrimary ==
    \A r \in Reqs :
        /\ Primaries(req[r]) <= 1
        /\ (/\ req[r].pc = "done"
            /\ req[r].func # "None"
            /\ req[r].reply # ServerError("handler exception"))
              => \/ Primaries(req[r]) = 1 /\ req[r].reply.status = 200
                 \/ Primaries(req[r]) = 0 /\ req[r].reply = AlreadyResponded

\* C5 as claimed: when the timeout of the race elapses with the handler
\* still running, the primary reply is a defer (the component defer for a
\* component), and the handler's later message or edit is delivered by one
\* follow-up call.
C5_TimeoutAlwaysDefers ==
    \A r \in Reqs :
        Has(req[r], "timeout")
            => /\ req[r].reply = DeferReplyFor(req[r])
               /\ Followups(req[r]) <= 1
               /\ (/\ req[r].task = "done"
                   /\ req[r].result \in {"Message", "Edit"}
                   /\ req[r].wrapper \in {"calling", "done"})
                     => Followups(req[r]) = 1

\* C5: when the timeout of the race elapses with the handler still running
\* and ctx.responded is not set, the primary reply is a defer (the
\* component defer for a component) on the handler's own task, and once the
\* handler completes with a message or an edit it is delivered by exactly
\* one follow-up call; when ctx.responded is set, the flow raises, no defer
\* is emitted and no follow-up is made.
C5_TimeoutDefers ==
    /\ [](\A r \in Reqs :
            Has(req[r], "timeout")
                => /\ auto_defer
                   /\ req[r].type \in {"APPLICATION_COMMAND",
                                       "MESSAGE_COMPONENT"}
                   /\ Followups(req[r]) <= 1
                   /\ \/ /\ req[r].reply = DeferReplyFor(req[r])
                         /\ Primaries(req[r]) = 1
                         /\ req[r].routine = "handler"
                         /\ req[r].wrapper # "none"
                         /\ Followups(req[r]) = 1
                              <=> /\ req[r].task = "done"
                                  /\ req[r].result \in {"Message", "Edit"}
                                  /\ req[r].wrapper \in {"calling", "done"}
                      \/ /\ req[r].reply = AlreadyResponded
                         /\ Primaries(req[r]) = 0
                         /\ req[r].wrapper = "none"
                         /\ Followups(req[r]) = 0)
    /\ [][\A r \in Reqs :
            (~Has(req[r], "timeout") /\ Has(req'[r], "timeout"))
                => (req'[r].reply = AlreadyResponded <=> req[r].responded)]_vars
    /\ \A r \in Reqs :
            (/\ Has(req[r], "timeout")
             /\ req[r].reply = DeferReplyFor(req[r])
             /\ req[r].task = "done"
             /\ req[r].result \in {"Message", "Edit"})
                ~> (Followups(req[r]) = 1)

C5_Witness ==
    \E r \in Reqs :
        /\ Has(req[r], "timeout")
        /\ req[r].type = "MESSAGE_COMPONENT"
        /\ req[r].reply = Reply(200, "COMPONENT_DEFER")
        /\ req[r].result = "Message"
        /\ Followups(req[r]) = 1
        /\ req[r].wrapper = "done"

\* The race of r ended with the handler done before the timeout, on a
\* result that is a response.
WonRace(q) ==
    /\ auto_defer
    /\ q.type \in {"APPLICATION_COMMAND", "MESSAGE_COMPONENT"}
    /\ q.pc = "done"
    /\ q.func # "None"
    /\ ~Has(q, "timeout")
    /\ q.task = "done"
    /\ q.result # "None"

\* C6 as claimed: when the handler completes before the timeout of the
\* race, the primary reply is the handler's own response, not a defer made
\* by the race, and no follow-up call is made.
C6_HandlerWinsNoFollowup ==
    \A r \in Reqs :
        WonRace(req[r])
            => /\ req[r].reply = OwnReplyFor(req[r])
               /\ req[r].routine # "handler"
               /\ Followups(req[r]) = 0

\* C6: when the handler completes before the timeout of the race and
\* ctx.responded is not set, the primary reply is the handler's own
\* response, not a defer made by the race, and no follow-up call is made
\* unless that response is itself a DeferredResponse; when ctx.responded is
\* set, the flow raises and neither a response nor a follow-up is made.
C6_HandlerWins ==
    /\ [](\A r \in Reqs :
            WonRace(req[r])
                => /\ req[r].routine # "handler"
                   /\ \/ /\ req[r].reply = OwnReplyFor(req[r])
                         /\ Primaries(req[r]) = 1
                         /\ req[r].result \notin {"DeferCallable", "DeferTask"}
                              => /\ Followups(req[r]) = 0
                                 /\ req[r].wrapper = "none"
                      \/ /\ req[r].reply = AlreadyResponded
                         /\ Primaries(req[r]) = 0
                         /\ req[r].wrapper = "none"
                         /\ Followups(req[r]) = 0)
    /\ [][\A r \in Reqs :
            (EndsWait(r) /\ WonRace(req'[r]))
                => (req'[r].reply = AlreadyResponded <=> req[r].responded)]_vars

C6_Witness ==
    \E r \in Reqs :
        /\ WonRace(req[r])
        /\ req[r].type = "APPLICATION_COMMAND"
        /\ req[r].result = "Message"
        /\ req[r].reply = Reply(200, "SEND_MESSAGE")
        /\ Followups(req[r]) = 0

\* The key of a registration call is in the mapping the call is for.
KeyPresent(kind, key) ==
    CASE kind = "command" -> key[1] \in CommandNames(commands)
      [] kind = "component" -> key \in DOMAIN components
      [] kind = "modal" -> key[1] \in DOMAIN modals
      [] OTHER -> FALSE

\* C7: a registration under a key already in its mapping raises and leaves
\* the registry as it was; a registration under a new key does not raise;
\* so every key keeps the first callback registered under it, and the names
\* of the command list are distinct.
C7_DuplicateKeyRejected ==
    /\ [](\A i, j \in DOMAIN commands :
            commands[i].name = commands[j].name => i = j)
    /\ [][/\ reg_call'.raised <=> KeyPresent(reg_call'.kind, reg_call'.key)
          /\ reg_call'.raised => registry' = registry
          /\ \A i \in DOMAIN commands :
                /\ i \in DOMAIN commands'
                /\ commands'[i] = commands[i]
                /\ GetCommandIn(commands', commands[i].name) = commands[i]
          /\ \A k \in DOMAIN components :
                k \in DOMAIN components' /\ components'[k] = components[k]
          /\ \A k \in DOMAIN modals :
                k \in DOMAIN modals' /\ modals'[k] = modals[k]]_vars

C7_Witness ==
    /\ reg_call.kind = "component"
    /\ reg_call.raised
    /\ reg_call.key = <<1, "BUTTON">>
    /\ components[<<1, "BUTTON">>] = "f"
    /\ Len(commands) = 1

\* C8: a follow-up call is made only after the primary response of its
\* Interaction has been returned, in every interleaving of the flow with
\* the wrapper and the tasks, also when the routine had finished before
\* the wrapper was created; a request that ends rejected has no wrapper
\* and no follow-up.
C8_PrimaryBeforeFollowup ==
    \A r \in Reqs :
        /\ (req[r].wrapper # "none" \/ Followups(req[r]) > 0)
              => /\ req[r].pc = "done"
                 /\ Primaries(req[r]) = 1
                 /\ req[r].reply.status = 200
        /\ Followups(req[r]) > 0
              => IndexOf(req[r].events, "primary")
                    < IndexOf(req[r].events, "followup")

C8_Witness ==
    \E r \in Reqs :
        /\ Has(req[r], "bg_done")
        /\ IndexOf(req[r].events, "bg_done")
              < IndexOf(req[r].events, "create_wrapper")
        /\ Followups(req[r]) = 1

\* The primary response returned for q is a deferred one.
DeferEmitted(q) ==
    /\ Has(q, "primary")
    /\ q.reply \in {Reply(200, "DEFER"), Reply(200, "COMPONENT_DEFER")}

\* C9 as claimed: whenever a primary response has been emitted, deferred or
\* not, responded is true, and it was set once, before the emission.
C9_RespondedBeforeEveryPrimary ==
    \A r \in Reqs :
        Has(req[r], "primary")
            => /\ req[r].responded
               /\ Count(req[r].events, "responded") = 1
               /\ IndexOf(req[r].events, "responded")
                     < IndexOf(req[r].events, "primary")

\* C9: for a primary response that is not deferred, responded goes from
\* false to true exactly once, before the response is emitted, and is true
\* in every state in which the response has been emitted; for a deferred
\* primary response the flow leaves responded as it was.
C9_RespondedBeforeImmediate ==
    /\ [](\A r \in Reqs :
            /\ Count(req[r].events, "responded") <= 1
            /\ Has(req[r], "primary")
                  => IF DeferEmitted(req[r])
                     THEN ~Has(req[r], "responded")
                     ELSE /\ req[r].responded
                          /\ Count(req[r].events, "responded") = 1
                          /\ IndexOf(req[r].events, "responded")
                                < IndexOf(req[r].events, "primary"))
    /\ [][\A r \in Reqs :
            /\ req[r].responded => req'[r].responded
            /\ (~Has(req[r], "responded") /\ Has(req'[r], "responded"))
                  => ~req[r].responded /\ req'[r].responded
            /\ (~Has(req[r], "primary") /\ DeferEmitted(req'[r]))
                  => req'[r].responded = req[r].responded]_vars

C9_Witness ==
    \E r \in Reqs :
        /\ req[r].reply = Reply(200, "SEND_MESSAGE")
        /\ req[r].responded
        /\ req[r].events =
              <<"parse_request", "before_request", "modal", "create_task",
                "responded", "primary">>

\* C10: the timeout of the race ends the wait and nothing else: the
\* handler's task is not cancelled, then or later, it is the task the
\* wrapper waits on, no second task is started for the handler, and it ends
\* by returning or by raising.
C10_TimeoutNeverCancels ==
    /\ [](\A r \in Reqs :
            /\ Count(req[r].events, "create_task") <= 1
            /\ Has(req[r], "timeout")
                  => /\ req[r].task \in {"running", "done", "raised"}
                     /\ ~Has(req[r], "create_bg")
                     /\ req[r].wrapper # "none" => req[r].routine = "handler")
    /\ [][\A r \in Reqs :
            /\ (~Has(req[r], "timeout") /\ Has(req'[r], "timeout"))
                  => req[r].task = "running" /\ req'[r].task = "running"
            /\ (Has(req[r], "timeout") /\ req[r].task = "running")
                  => req'[r].task \in {"running", "done", "raised"}
            /\ (Has(req[r], "timeout") /\ req[r].task # "running")
                  => req'[r].task = req[r].task]_vars

C10_Witness ==
    \E r \in Reqs :
        /\ Has(req[r], "timeout")
        /\ req[r].task = "done"
        /\ req[r].result = "Edit"
        /\ Followups(req[r]) = 1

\* The wrapper of q has ended on an exception of its routine.
RoutineFailed(q) ==
    /\ q.wrapper = "done"
    /\ \/ q.routine = "handler" /\ q.task = "raised"
       \/ q.routine = "bg" /\ q.bg = "raised"

\* The step logs an error for r.
LogsError(r) ==
    Count(req'[r].events, "log_error") > Count(req[r].events, "log_error")

\* The engine can take the step the flow of r is waiting for.
Serving(r) ==
    /\ req[r].pc = "idle" => ENABLED Receive(r, "valid")
    /\ req[r].pc = "routed" => ENABLED HandleRequest(r)
    /\ (req[r].pc = "racing" /\ req[r].task = "running")
          => ENABLED Timeout(r)
    /\ (req[r].pc = "racing" /\ req[r].task # "running")
          => ENABLED WaitReturns(r)
    /\ (req[r].pc = "awaiting" /\ req[r].task # "running")
          => ENABLED AwaitReturns(r)
    /\ (req[r].wrapper = "waiting" /\ RoutineState(req[r]) # "running")
          => ENABLED WrapperResumes(r)

\* C11: an exception of a deferred routine is caught by the wrapper and
\* logged once: the step that logs it leaves the flow of its Interaction
\* (its end, its defer reply, its one primary response, responded) and
\* every other Interaction as they were, and no follow-up call is made for
\* it; a follow-up call that fails is logged the same way and not made
\* again; and whatever has failed, the engine goes on serving every
\* Interaction, in flight or not yet received.
C11_BackgroundErrorLogged ==
    /\ [](\A r \in DOMAIN req :
            /\ Count(req[r].events, "log_error") <= 1
            /\ Followups(req[r]) <= 1
            /\ RoutineFailed(req[r])
                  => /\ Count(req[r].events, "log_error") = 1
                     /\ Followups(req[r]) = 0
                     /\ req[r].pc = "done"
                     /\ req[r].reply = DeferReplyFor(req[r])
                     /\ Primaries(req[r]) = 1
            /\ Has(req[r], "log_error")
                  => /\ req[r].wrapper = "done"
                     /\ req[r].reply = DeferReplyFor(req[r])
            /\ Serving(r))
    /\ [][\A r \in DOMAIN req :
            /\ LogsError(r)
                  => /\ req'[r].pc = req[r].pc
                     /\ req'[r].reply = req[r].reply
                     /\ req'[r].responded = req[r].responded
                     /\ Primaries(req'[r]) = Primaries(req[r])
                     /\ Followups(req'[r]) = Followups(req[r])
                     /\ \A s \in DOMAIN req \ {r} : req'[s] = req[s]
            /\ Has(req[r], "log_error")
                  => /\ Followups(req'[r]) = Followups(req[r])
                     /\ req'[r].sent = req[r].sent
                     /\ Primaries(req'[r]) = Primaries(req[r])
                     /\ req'[r].reply = req[r].reply
                     /\ req'[r].wrapper = req[r].wrapper]_vars

\* Two Interactions in flight: the deferred callable of one raised, the
\* follow-up call of the other failed; each was logged and each keeps its
\* defer reply.
C11_Witness ==
    /\ RoutineFailed(req[1])
    /\ req[1].routine = "bg"
    /\ req[1].reply = Reply(200, "DEFER")
    /\ Followups(req[2]) = 1
    /\ Has(req[2], "log_error")
    /\ req[2].wrapper = "done"
    /\ req[2].reply = Reply(200, "DEFER")

\* C12: once the wrapper has resumed on a routine that completed, one
\* follow-up call has been made if the result is a message or an edit and
\* none otherwise; an empty result is not reported as an error; a result of
\* any other kind is raised and logged, once; and before the wrapper
\* resumes nothing is called or logged.
C12_FollowupKinds ==
    \A r \in Reqs :
        /\ req[r].wrapper \in {"none", "waiting"}
              => Followups(req[r]) = 0 /\ ~Has(req[r], "log_error")
        /\ (req[r].wrapper \in {"calling", "done"}
              /\ RoutineState(req[r]) = "done")
              => LET result == RoutineResult(req[r])
                 IN  /\ Followups(req[r])
                           = IF result \in {"Message", "Edit"} THEN 1 ELSE 0
                     /\ result = "None" => ~Has(req[r], "log_error")
                     /\ result \notin {"Message", "Edit", "None"}
                           => /\ req[r].wrapper = "done"
                              /\ Count(req[r].events, "log_error") = 1

\* A deferred callable returned a modal: no follow-up, one logged error.
C12_Witness ==
    \E r \in Reqs :
        /\ req[r].routine = "bg"
        /\ req[r].bgresult = "Modal"
        /\ req[r].wrapper = "done"
        /\ Followups(req[r]) = 0
        /\ Count(req[r].events, "log_error") = 1

\* The arguments a callback declares with a type: self, ctx and context
\* are never passed by name.
DeclaredArguments(callback) ==
    IF callback = "f" THEN {"o1", "o2"} ELSE {"o1"}
DeclaredType(callback, argument) ==
    IF callback = "f" /\ argument = "o1" THEN "int" ELSE "str"

\* The value of the first option of that name in the request.
RawValue(q, argument) ==
    q.options[CHOOSE i \in DOMAIN q.options :
                 /\ q.options[i].name = argument
                 /\ \A j \in 1..(i-1) : q.options[j].name # argument].value

\* C13: the keyword arguments of a command's handler are the declared
\* arguments that are the name of an option of the request; each is the
\* option's value coerced to the declared type, or the raw value when it
\* does not coerce.
C13_RawValueOnFailure ==
    \A r \in DOMAIN req :
        (req[r].type = "APPLICATION_COMMAND" /\ Has(req[r], "create_task"))
            => /\ DOMAIN req[r].kwargs
                     = {a \in DeclaredArguments(req[r].func) :
                          \E i \in DOMAIN req[r].options :
                              req[r].options[i].name = a}
               /\ \A a \in DOMAIN req[r].kwargs :
                     req[r].kwargs[a]
                        = IF DeclaredType(req[r].func, a) = "int"
                             /\ RawValue(req[r], a) = "5"
                          THEN Int("5")
                          ELSE Str(RawValue(req[r], a))

\* The request is on a route without the defer race: auto defer is
\* disabled, or the request is a modal or an autocomplete.
NoRace(q) ==
    /\ q.type \in {"APPLICATION_COMMAND", "MESSAGE_COMPONENT",
                    "MODAL_SUBMIT", "APPLICATION_COMMAND_AUTOCOMPLETE"}
    /\ \/ ~auto_defer
       \/ q.type \in {"MODAL_SUBMIT", "APPLICATION_COMMAND_AUTOCOMPLETE"}

\* C14: on a route without the defer race no timeout ends the wait and no
\* defer is made on the handler's task; the flow ends only after the
\* handler has returned or raised; and a primary response is returned only
\* after the handler has returned, and is the handler's own result (as a
\* defer, with a wrapper, only when that result is a DeferredResponse).
C14_NoRaceAwaitsHandler ==
    \A r \in Reqs :
        NoRace(req[r])
            => /\ req[r].pc # "racing"
               /\ ~Has(req[r], "timeout")
               /\ req[r].routine # "handler"
               /\ (req[r].pc = "done" /\ req[r].func # "None")
                     => req[r].task \in {"done", "raised"}
               /\ Has(req[r], "primary")
                     => /\ req[r].task = "done"
                        /\ req[r].result # "None"
                        /\ req[r].reply = OwnReplyFor(req[r])
               /\ req[r].wrapper # "none"
                     => req[r].result \in {"DeferCallable", "DeferTask"}

\* A modal is answered with its handler's message while auto defer is
\* enabled.
C14_Witness ==
    \E r \in Reqs :
        /\ auto_defer
        /\ req[r].type = "MODAL_SUBMIT"
        /\ req[r].result = "Message"
        /\ req[r].reply = Reply(200, "SEND_MESSAGE")
        /\ Has(req[r], "primary")

\* The step returns the primary response of r, as a deferred one.
EmitsDefer(r) ==
    /\ ~Has(req[r], "primary")
    /\ Has(req'[r], "primary")
    /\ req'[r].wrapper # "none"

\* C15: a deferred primary response, made by the race or returned by the
\* handler, goes out as the component defer when the request is a message
\* component and as the generic defer otherwise, whatever type the handler
\* built it with; the type of a DeferredResponse the handler returned is
\* changed by no step but the one that emits it, so not before the handler
\* has returned and not when the flow is rejected; and a defer of the race
\* is emitted in the step of the timeout, the handler still running.
C15_DeferTypeAtEmission ==
    /\ [](\A r \in Reqs :
            /\ req[r].built_type \in {"none", "DEFER", "COMPONENT_DEFER"}
            /\ req[r].wrapper # "none"
                => /\ Primaries(req[r]) = 1
                   /\ req[r].reply = DeferReplyFor(req[r])
                   /\ req[r].routine = "bg"
                         => req[r].resp_type = req[r].reply.body)
    /\ [][\A r \in Reqs :
            /\ (req[r].resp_type # "none"
                  /\ req'[r].resp_type # req[r].resp_type)
                  => /\ EmitsDefer(r)
                     /\ req[r].task = "done"
                     /\ req[r].result \in {"DeferCallable", "DeferTask"}
            /\ EmitsDefer(r)
                  => \/ /\ req[r].task = "done"
                        /\ req[r].result \in {"DeferCallable", "DeferTask"}
                        /\ ~Has(req'[r], "timeout")
                     \/ /\ req[r].task = "running"
                        /\ ~Has(req[r], "timeout")
                        /\ Has(req'[r], "timeout")]_vars

\* A command's handler returned a DeferredResponse built as a component
\* defer: it went out as the generic defer.
C15_Witness ==
    \E r \in Reqs :
        /\ req[r].type = "APPLICATION_COMMAND"
        /\ req[r].result = "DeferCallable"
        /\ req[r].built_type = "COMPONENT_DEFER"
        /\ req[r].events[Len(req[r].events)] = "primary"
        /\ req[r].resp_type = "DEFER"
        /\ req[r].reply = Reply(200, "DEFER")

\* The positions of the options of q flagged focused.
FocusedAt(q) == {i \in DOMAIN q.options : q.options[i].focused}

\* The option of q the autocomplete is for: the first one flagged focused.
TheFocused(q) ==
    q.options[CHOOSE i \in FocusedAt(q) : \A j \in FocusedAt(q) : i <= j]

\* The autocomplete handler registered for an option of the command with
\* that callback.
Completer(callback, name) ==
    CASE callback = "f" /\ name = "o1" -> "f_o1"
      [] callback = "g" /\ name = "o1" -> "g_o1"
      [] callback = "g" /\ name = "o2" -> "g_o2"
      [] OTHER -> "None"

\* The autocomplete handler the request q is for, "None" without one.
CompleterFor(q) ==
    IF q.key \in CommandNames(commands) /\ FocusedAt(q) # {}
    THEN Completer(get_command(q.key).callback, TheFocused(q).name)
    ELSE "None"

\* C16: an autocomplete request whose command is not registered, or that
\* has no option flagged focused, or whose (first) focused option has no
\* autocomplete handler in the command, starts no handler and is answered
\* not found; any other starts the handler registered under the focused
\* option's name, bound to the Interaction and that option's raw value and
\* to nothing else.
C16_AutocompleteFocused ==
    \A r \in DOMAIN req :
        (/\ req[r].type = "APPLICATION_COMMAND_AUTOCOMPLETE"
         /\ Has(req[r], "before_request"))
            => IF CompleterFor(req[r]) = "None"
               THEN /\ req[r].pc = "done"
                    /\ req[r].reply = NotFound
                    /\ req[r].func = "None"
                    /\ req[r].task = "none"
                    /\ ~Has(req[r], "create_task")
               ELSE /\ req[r].func = CompleterFor(req[r])
                    /\ Count(req[r].events, "create_task") = 1
                    /\ req[r].args = <<Str(TheFocused(req[r]).value)>>
                    /\ req[r].kwargs = EmptyDict
                    /\ req[r].reply # NotFound

\* The handler for o2 is started with the value of the focused o2, which
\* comes after an option of the same name that is not focused.
C16_Witness ==
    /\ req[1].type = "APPLICATION_COMMAND_AUTOCOMPLETE"
    /\ req[1].options
          = <<Option("o2", "5", FALSE), Option("o2", "x", TRUE)>>
    /\ req[1].func = "g_o2"
    /\ req[1].args = <<Str("x")>>
    /\ req[1].task = "running"

\* The flow of q got, from its wait, a DeferredResponse holding a callable.
GotCallable(q) ==
    /\ q.pc = "done"
    /\ q.task = "done"
    /\ q.result = "DeferCallable"
    /\ ~Has(q, "timeout")

\* C17: a callable held by the DeferredResponse a handler returned as its
\* primary response is started once, with the client and the Interaction
\* of the request, in the step that returns the defer, and never when the
\* flow ends on the responded check; nothing else starts a deferred
\* callable; its result goes to the wrapper, which makes the one follow-up
\* call for a message or an edit.
C17_CallableStartedAtEmission ==
    /\ [](\A r \in Reqs :
            /\ Count(req[r].events, "create_bg") <= 1
            /\ Has(req[r], "create_bg")
                  => /\ GotCallable(req[r])
                     /\ req[r].reply = DeferReplyFor(req[r])
                     /\ req[r].bg_args = <<"self", r>>
                     /\ req[r].routine = "bg"
                     /\ req[r].wrapper # "none"
                     /\ IndexOf(req[r].events, "create_bg")
                           < IndexOf(req[r].events, "primary")
            /\ GotCallable(req[r])
                  => IF req[r].reply = AlreadyResponded
                     THEN /\ ~Has(req[r], "create_bg")
                          /\ req[r].bg = "none"
                          /\ req[r].bg_args = <<>>
                     ELSE Count(req[r].events, "create_bg") = 1
            /\ (/\ Has(req[r], "create_bg")
                 /\ req[r].bg = "done"
                 /\ req[r].wrapper \in {"calling", "done"})
                  => IF req[r].bgresult \in {"Message", "Edit"}
                     THEN req[r].sent
                            = <<[request |-> r, response |-> req[r].bgresult]>>
                     ELSE req[r].sent = <<>>)
    /\ [][\A r \in Reqs :
            /\ (~Has(req[r], "create_bg") /\ Has(req'[r], "create_bg"))
                  => /\ ~req[r].responded
                     /\ req[r].pc \in {"racing", "awaiting"}
                     /\ req[r].bg = "none"
                     /\ req'[r].bg = "running"
                     /\ ~Has(req[r], "primary")
                     /\ Has(req'[r], "primary")
            /\ (EndsWait(r) /\ GotCallable(req'[r]))
                  => (req'[r].reply = AlreadyResponded <=> req[r].responded)
            /\ req[r].bg = "none" /\ req'[r].bg = "running"
                  => \/ Has(req'[r], "create_bg")
                     \/ req'[r].result = "DeferTask"]_vars

\* The callable of a component's handler was started, returned an edit,
\* and the edit was sent as the follow-up of that request.
C17_Witness ==
    \E r \in Reqs :
        /\ req[r].type = "MESSAGE_COMPONENT"
        /\ GotCallable(req[r])
        /\ req[r].bg_args = <<"self", r>>
        /\ req[r].bgresult = "Edit"
        /\ req[r].sent = <<[request |-> r, response |-> "Edit"]>>
        /\ req[r].wrapper = "done"

\* The handler of q raised while the flow was waiting for it.
RaisedInFlow(q) == q.task = "raised" /\ ~Has(q, "timeout")

\* C18: when the handler raises while the flow waits for it (before the
\* timeout in the race, at any time on a route without it), the flow ends
\* on that exception with the server's error reply: no primary response
\* and no defer is returned, the engine does not set responded, no wrapper
\* is created and no follow-up call is ever made; the step that ends the
\* flow changes nothing of another Interaction, and the engine goes on
\* serving every Interaction.
C18_HandlerErrorPropagates ==
    /\ [](\A r \in DOMAIN req :
            /\ RaisedInFlow(req[r])
                  => /\ req[r].pc \in {"racing", "awaiting", "done"}
                     /\ req[r].pc = "done"
                           => req[r].reply = Reply(500, "handler exception")
                     /\ Primaries(req[r]) = 0
                     /\ ~Has(req[r], "responded")
                     /\ ~Has(req[r], "create_bg")
                     /\ req[r].wrapper = "none"
                     /\ Followups(req[r]) = 0
                     /\ req[r].sent = <<>>
            /\ Serving(r))
    /\ [][\A r \in DOMAIN req :
            /\ (EndsWait(r) /\ req[r].task = "raised")
                  => /\ req'[r].responded = req[r].responded
                     /\ req'[r].events = req[r].events
                     /\ \A s \in DOMAIN req \ {r} : req'[s] = req[s]
            /\ (RaisedInFlow(req[r]) /\ req[r].pc = "done")
                  => req'[r] = req[r]]_vars

\* Two Interactions in flight: the handler of a command raised before the
\* timeout and the request ended in the error reply; a modal received
\* with it was answered with its handler's message.
C18_Witness ==
    /\ req[1].type = "APPLICATION_COMMAND"
    /\ RaisedInFlow(req[1])
    /\ req[1].reply = Reply(500, "handler exception")
    /\ req[2].type = "MODAL_SUBMIT"
    /\ req[2].reply = Reply(200, "SEND_MESSAGE")

\* The flow of q has resolved its callback.
Resolved(q) == Has(q, "before_request")

\* The callback registered for the kind and key of q, "None" without one
\* (for an autocomplete, the handler its focused option has).
Registered(q) ==
    CASE q.type = "APPLICATION_COMMAND" ->
            IF q.key \in CommandNames(commands)
            THEN commands[CHOOSE i \in DOMAIN commands :
                            commands[i].name = q.key].callback
            ELSE "None"
      [] q.type = "MESSAGE_COMPONENT" ->
            IF <<q.key, q.ctype>> \in DOMAIN components
            THEN components[<<q.key, q.ctype>>] ELSE "None"
      [] q.type = "MODAL_SUBMIT" ->
            IF q.key \in DOMAIN modals THEN modals[q.key] ELSE "None"
      [] OTHER -> CompleterFor(q)

\* C19: no step of the handling of a request, whatever its outcome,
\* changes the command list, the component dict or the modal dict; a
\* request resolves to the callback registered for its kind and key, or to
\* none when there is none, so two requests of the same kind and key
\* resolve alike, hit or miss.
C19_RegistryUnchanged ==
    /\ [][registry' = registry]_vars
    /\ [](\A r \in DOMAIN req :
            Resolved(req[r])
                => /\ req[r].func = Registered(req[r])
                   /\ req[r].func = "None" <=> req[r].reply = NotFound)
    /\ [](\A r, s \in DOMAIN req :
            (/\ Resolved(req[r])
             /\ Resolved(req[s])
             /\ req[r].type = req[s].type
             /\ req[r].key = req[s].key
             /\ req[r].ctype = req[s].ctype
             /\ req[r].focused = req[s].focused)
                => /\ req[r].func = req[s].func
                   /\ req[r].reply = NotFound <=> req[s].reply = NotFound)

\* Two requests for modal 1 were both resolved to its callback, one
\* answered and one failing, and the registry is the sample registry.
C19_Witness ==
    /\ req[1].type = "MODAL_SUBMIT"
    /\ req[2].type = "MODAL_SUBMIT"
    /\ req[1].key = 1
    /\ req[2].key = 1
    /\ req[1].func = "g"
    /\ req[2].func = "g"
    /\ req[1].reply = Reply(200, "SEND_MESSAGE")
    /\ req[2].reply = Reply(500, "handler exception")
    /\ registry = <<SampleCommands, SampleComponents, SampleModals>>

\* The result of the routine the wrapper of q waits on: the handler's for
\* a defer of the race, the deferred task's otherwise.
OwnResult(q) == IF Has(q, "timeout") THEN q.result ELSE q.bgresult

\* C20: with several Interactions in flight and their tasks finishing in
\* any order, every follow-up call of an Interaction names that
\* Interaction's request and carries the result of its own routine; a
\* follow-up call is made only for an Interaction whose primary response
\* was a defer; a deferred callable is called with its own Interaction; and
\* a step that changes one Interaction (its flag, its reply, anything)
\* leaves every other as it was.
C20_InteractionsIndependent ==
    /\ [](\A r \in DOMAIN req :
            /\ req[r].id \in {0, r}
            /\ req[r].wrapper_request \in {0, r}
            /\ req[r].bg_args \in {<<>>, <<"self", r>>}
            /\ Len(req[r].sent) = Followups(req[r])
            /\ Len(req[r].sent) <= 1
            /\ \A i \in DOMAIN req[r].sent :
                  /\ req[r].sent[i].request = r
                  /\ req[r].sent[i].response = OwnResult(req[r])
                  /\ req[r].sent[i].response \in {"Message", "Edit"}
            /\ req[r].sent # <<>>
                  => /\ Primaries(req[r]) = 1
                     /\ req[r].reply \in {Reply(200, "DEFER"),
                                           Reply(200, "COMPONENT_DEFER")})
    /\ [][\A r, s \in DOMAIN req :
            (r # s /\ req'[r] # req[r]) => req'[s] = req[s]]_vars

\* Two Interactions deferred at once, a command by the race and a modal by
\* its handler: the handler's message went to the first, the callable's
\* edit to the second.
C20_Witness ==
    /\ req[1].type = "APPLICATION_COMMAND"
    /\ Has(req[1], "timeout")
    /\ req[1].sent = <<[request |-> 1, response |-> "Message"]>>
    /\ req[2].type = "MODAL_SUBMIT"
    /\ req[2].result = "DeferCallable"
    /\ req[2].bgresult = "Edit"
    /\ req[2].sent = <<[request |-> 2, response |-> "Edit"]>>

=============================================================================
